---- MODULE Spec2Model ----
(***************************************************************************)
(* Model of ldap3/core/pooling.py: the ServerPool registry and the         *)
(* per-connection ServerPoolState cursor.                                   *)
(*                                                                         *)
(* Indices (last_used_server, starting, index) are 0-based as in the       *)
(* Python source; the i-th element of a Python list s is s[i + 1] here.    *)
(***************************************************************************)
EXTENDS Integers, Sequences, FiniteSets, TLC

\* ------------------------------------------------------------------------
\* Bounds of the model
\* ------------------------------------------------------------------------

\* longest endpoint list the registry is grown to
MaxServers == 3

\* longest sequence handed to add() in one call
MaxAddSeq == 2

\* addresses of the candidate servers
Endpoints == {"A", "B"}

\* connection identities (keys of ServerPool.pool_states)
Connections == {"c1", "c2"}

\* ------------------------------------------------------------------------
\* Constants of the program
\* ------------------------------------------------------------------------

FIRST == "FIRST"

ROUND_ROBIN == "ROUND_ROBIN"

RANDOM == "RANDOM"

POOLING_STRATEGIES == {FIRST, ROUND_ROBIN, RANDOM}

\* exception classes raised by the code
NoExc == "NoExc"

LDAPServerPoolError == "LDAPServerPoolError"

LDAPServerPoolExhaustedError == "LDAPServerPoolExhaustedError"

LDAPUnknownStrategyError == "LDAPUnknownStrategyError"

\* random.randint(a, b) with a > b
ValueError == "ValueError"

\* list subscript out of range
IndexError == "IndexError"

\* messages of the LDAPServerPoolError raised at the different places
MsgNone == "-"

MsgNoServers == "no servers in server pool"

MsgNotRegistered == "connection not in ServerPoolState"

MsgNotInPool == "server not in server pool"

MsgBadElement == "server in ServerPool must be a Server"

MsgBadArgument == "server must be a Server or a list of Server"

MsgExhausted == "no active server available in server pool"

MsgExhaustedRandom == "no random active server in server pool"

MsgInvalidPolicy == "pools can be exhausted only when checking for active servers"

MsgUnknownStrategy == "unknown pooling strategy"

NoServer == "NoServer"

NoConnection == "NoConnection"

\* ------------------------------------------------------------------------
\* State
\* ------------------------------------------------------------------------
VARIABLES
    servers,        \* ServerPool.servers: the registry's endpoint list
    pool_states,    \* ServerPool.pool_states: connection -> ServerPoolState
    strategy,       \* ServerPool.strategy
    active,         \* ServerPool.active
    exhaust,        \* ServerPool.exhaust
    last,           \* observation: the last completed call and its outcome
    trace,          \* observation: the get_server calls the observed connection
                    \* made since the last add/remove and its last initialize
    removed,        \* observation: endpoints removed and not added since
    writer,         \* the thread inside add()/remove(): where it stands
    reader,         \* the thread inside get_server()/get_current_server() of
                    \* the observed connection: where it stands, its locals
    alive           \* the servers whose check_availability() answers True now

vars == <<servers, pool_states, strategy, active, exhaust, last, trace, removed,
          writer, reader, alive>>

\* the variables of the statement-by-statement specifications
threads == <<writer, reader, alive>>

\* ------------------------------------------------------------------------
\* Python helpers
\* ------------------------------------------------------------------------

\* x in list
In(list, x) == \E i \in 1..Len(list) : list[i] = x

\* list.index(x): 0-based position of the first element equal to x
Index(list, x) == CHOOSE i \in 0..(Len(list) - 1) :
    /\ list[i + 1] = x
    /\ \A j \in 0..(i - 1) : list[j + 1] # x

\* list.pop(i) / the list after del list[i], i 0-based
DelAt(list, i) == SubSeq(list, 1, i) \o SubSeq(list, i + 2, Len(list))

\* list.remove(x): drops the first element equal to x
ListRemove(list, x) == DelAt(list, Index(list, x))

\* Server(address): endpoints are compared by their logical address
Server(address) == address

\* random.randint(a, b): its possible outcomes; none when a > b (ValueError)
randint(a, b) == a..b

\* ------------------------------------------------------------------------
\* ServerPoolState (the per-connection cursor)
\* ------------------------------------------------------------------------

\* ServerPoolState.refresh: the snapshot is rebuilt from the registry's list,
\* then last_used_server is drawn at random (r); with an empty list randint
\* raises after the snapshot was replaced, and last_used_server keeps its value
refresh(self, pool_servers, r) ==
    IF randint(0, Len(pool_servers) - 1) = {}
    THEN [state |-> [self EXCEPT !.servers = pool_servers], exc |-> ValueError]
    ELSE [state |-> [servers |-> pool_servers, last_used_server |-> r],
          exc |-> NoExc]

\* ServerPoolState.__init__: refresh() and a second random draw
NewServerPoolState(pool_servers, r) ==
    refresh([servers |-> <<>>, last_used_server |-> 0], pool_servers, r)

\* ServerPoolState.get_current_server
get_current_server(self) ==
    IF self.last_used_server < Len(self.servers)
    THEN [exc |-> NoExc, server |-> self.servers[self.last_used_server + 1]]
    ELSE [exc |-> IndexError, server |-> NoServer]

\* ScanLoop with the availability test inverted: the loop breaks on the first
\* server that answers not live
RECURSIVE ScanLoopInverted(_, _, _, _, _)
ScanLoopInverted(list, index, limit, ans, probes) ==
    IF index < limit
    THEN IF index >= Len(list)
         THEN [found |-> FALSE, exc |-> IndexError, index |-> index, probes |-> probes]
         ELSE LET a == ans[Len(probes) + 1]
                  p == Append(probes, <<index, a>>)
              IN  IF ~a
                  THEN [found |-> TRUE, exc |-> NoExc, index |-> index, probes |-> p]
                  ELSE ScanLoopInverted(list, index + 1, limit, ans, p)
    ELSE [found |-> FALSE, exc |-> NoExc, index |-> index, probes |-> probes]

\* One inner while loop of find_active_server: probes index, index + 1, ...
\* while index < limit; ans[k] is the answer of the k-th check_availability()
\* of the pass, probes the log <<index, answer>> of the probes made so far.
RECURSIVE ScanLoop(_, _, _, _, _)
ScanLoop(list, index, limit, ans, probes) ==
    IF index < limit
    THEN IF index >= Len(list)
         THEN [found |-> FALSE, exc |-> IndexError, index |-> index, probes |-> probes]
         ELSE LET a == ans[Len(probes) + 1]
                  p == Append(probes, <<index, a>>)
              IN  IF a
                  THEN [found |-> TRUE, exc |-> NoExc, index |-> index, probes |-> p]
                  ELSE ScanLoop(list, index + 1, limit, ans, p)
    ELSE [found |-> FALSE, exc |-> NoExc, index |-> index, probes |-> probes]

\* find_active_server without the raise: a scan that found nothing falls
\* through to `return index`
find_active_server_falls_through(list, starting, ex, ans) ==
    LET up   == ScanLoop(list, starting, Len(list), ans, <<>>)
        base == ScanLoop(list, 0, starting, ans, up.probes)
    IN  IF up.found
        THEN [exc |-> NoExc, msg |-> MsgNone, index |-> up.index,
              probes |-> up.probes, again |-> FALSE]
        ELSE IF base.exc # NoExc
        THEN [exc |-> base.exc, msg |-> MsgNone, index |-> -1,
              probes |-> base.probes, again |-> FALSE]
        ELSE IF base.found \/ ex
        THEN [exc |-> NoExc, msg |-> MsgNone, index |-> base.index,
              probes |-> base.probes, again |-> FALSE]
        ELSE [exc |-> NoExc, msg |-> MsgNone, index |-> -1,
              probes |-> base.probes, again |-> TRUE]

\* find_active_server that starts every scan at index 0, whatever `starting`
find_active_server_ignores_starting(list, starting, ex, ans) ==
    LET up == ScanLoop(list, 0, Len(list), ans, <<>>)
    IN  IF up.found
        THEN [exc |-> NoExc, msg |-> MsgNone, index |-> up.index,
              probes |-> up.probes, again |-> FALSE]
        ELSE IF ex
        THEN [exc |-> LDAPServerPoolExhaustedError, msg |-> MsgExhausted,
              index |-> -1, probes |-> up.probes, again |-> FALSE]
        ELSE [exc |-> NoExc, msg |-> MsgNone, index |-> -1,
              probes |-> up.probes, again |-> TRUE]

\* find_active_server whose second loop runs to the end of the list instead of
\* stopping before `starting`
find_active_server_rescans(list, starting, ex, ans) ==
    LET more == [k \in 1..(2 * Len(list)) |-> IF k \in DOMAIN ans THEN ans[k] ELSE FALSE]
        up   == ScanLoop(list, starting, Len(list), more, <<>>)
        base == ScanLoop(list, 0, Len(list), more, up.probes)
    IN  IF up.found
        THEN [exc |-> NoExc, msg |-> MsgNone, index |-> up.index,
              probes |-> up.probes, again |-> FALSE]
        ELSE IF base.found
        THEN [exc |-> NoExc, msg |-> MsgNone, index |-> base.index,
              probes |-> base.probes, again |-> FALSE]
        ELSE IF ex
        THEN [exc |-> LDAPServerPoolExhaustedError, msg |-> MsgExhausted,
              index |-> -1, probes |-> base.probes, again |-> FALSE]
        ELSE [exc |-> NoExc, msg |-> MsgNone, index |-> -1,
              probes |-> base.probes, again |-> TRUE]

\* ServerPoolState.find_active_server, one pass of its outer while True:
\* again = TRUE is the `continue` that starts the next pass
find_active_server(list, starting, ex, ans) ==
    LET up   == ScanLoop(list, starting, Len(list), ans, <<>>)
        base == ScanLoop(list, 0, starting, ans, up.probes)
    IN  IF up.found
        THEN [exc |-> NoExc, msg |-> MsgNone, index |-> up.index,
              probes |-> up.probes, again |-> FALSE]
        ELSE IF base.exc # NoExc
        THEN [exc |-> base.exc, msg |-> MsgNone, index |-> -1,
              probes |-> base.probes, again |-> FALSE]
        ELSE IF base.found
        THEN [exc |-> NoExc, msg |-> MsgNone, index |-> base.index,
              probes |-> base.probes, again |-> FALSE]
        ELSE IF ex
        THEN [exc |-> LDAPServerPoolExhaustedError, msg |-> MsgExhausted,
              index |-> -1, probes |-> base.probes, again |-> FALSE]
        ELSE [exc |-> NoExc, msg |-> MsgNone, index |-> -1,
              probes |-> base.probes, again |-> TRUE]

\* The inner loop of find_active_random_server. temp holds, for each element
\* still in temp_list, its position in self.servers; picks[k] is the k-th
\* randint(0, len(temp_list) - 1) of the pass.
RECURSIVE PopLoop(_, _, _, _, _)
PopLoop(list, temp, picks, ans, probes) ==
    IF temp = <<>>
    THEN [found |-> FALSE, index |-> -1, probes |-> probes]
    ELSE LET k   == Len(probes) + 1
             pos == temp[picks[k] + 1]
             a   == ans[k]
             p   == Append(probes, <<pos, a>>)
         IN  IF a
             THEN [found |-> TRUE, index |-> Index(list, list[pos + 1]), probes |-> p]
             ELSE PopLoop(list, DelAt(temp, picks[k]), picks, ans, p)

\* find_active_random_server without the test of exhaust: a pass without a
\* live server always starts the next pass
find_active_random_server_retries(list, ex, picks, ans) ==
    LET pass == PopLoop(list, [i \in 1..Len(list) |-> i - 1], picks, ans, <<>>)
    IN  IF pass.found
        THEN [exc |-> NoExc, msg |-> MsgNone, index |-> pass.index,
              probes |-> pass.probes, again |-> FALSE]
        ELSE [exc |-> NoExc, msg |-> MsgNone, index |-> -1,
              probes |-> pass.probes, again |-> TRUE]

\* ServerPoolState.find_active_random_server, one pass of its outer while True
find_active_random_server(list, ex, picks, ans) ==
    LET pass == PopLoop(list, [i \in 1..Len(list) |-> i - 1], picks, ans, <<>>)
    IN  IF pass.found
        THEN [exc |-> NoExc, msg |-> MsgNone, index |-> pass.index,
              probes |-> pass.probes, again |-> FALSE]
        ELSE IF ex
        THEN [exc |-> LDAPServerPoolExhaustedError, msg |-> MsgExhaustedRandom,
              index |-> -1, probes |-> pass.probes, again |-> FALSE]
        ELSE [exc |-> NoExc, msg |-> MsgNone, index |-> -1,
              probes |-> pass.probes, again |-> TRUE]

\* SelectIndex whose FIRST branch without active check keeps the cursor where
\* it is instead of setting it to 0
SelectIndexFirstKeepsCursor(self, strat, act, ex, r, picks, ans) ==
    LET direct(i) == [exc |-> NoExc, msg |-> MsgNone, index |-> i,
                      probes |-> <<>>, again |-> FALSE]
    IN  IF strat = FIRST
        THEN IF act
             THEN find_active_server(self.servers, 0, ex, ans)
             ELSE direct(self.last_used_server)
        ELSE IF strat = ROUND_ROBIN
        THEN IF act
             THEN find_active_server(self.servers, self.last_used_server + 1, ex, ans)
             ELSE direct(IF self.last_used_server + 1 < Len(self.servers)
                         THEN self.last_used_server + 1
                         ELSE 0)
        ELSE IF strat = RANDOM
        THEN IF act
             THEN find_active_random_server(self.servers, ex, picks, ans)
             ELSE direct(r)
        ELSE [exc |-> LDAPUnknownStrategyError, msg |-> MsgNone, index |-> -1,
              probes |-> <<>>, again |-> FALSE]

\* The index the strategy selects in get_server (lines 71-94) for a non-empty
\* snapshot: a direct choice, or the outcome of a scan. r is the outcome of
\* randint(0, len(self.servers)) of the RANDOM strategy without active check.
SelectIndex(self, strat, act, ex, r, picks, ans) ==
    LET direct(i) == [exc |-> NoExc, msg |-> MsgNone, index |-> i,
                      probes |-> <<>>, again |-> FALSE]
    IN  IF strat = FIRST
        THEN IF act
             THEN find_active_server(self.servers, 0, ex, ans)
             ELSE direct(0)
        ELSE IF strat = ROUND_ROBIN
        THEN IF act
             THEN find_active_server(self.servers, self.last_used_server + 1, ex, ans)
             ELSE direct(IF self.last_used_server + 1 < Len(self.servers)
                         THEN self.last_used_server + 1
                         ELSE 0)
        ELSE IF strat = RANDOM
        THEN IF act
             THEN find_active_random_server(self.servers, ex, picks, ans)
             ELSE direct(r)
        ELSE [exc |-> LDAPUnknownStrategyError, msg |-> MsgNone, index |-> -1,
              probes |-> <<>>, again |-> FALSE]

\* get_server done by rotating the snapshot: the servers before the selected
\* one are moved to the end of self.servers
get_server_rotates(self, strat, act, ex, r, picks, ans) ==
    IF self.servers # <<>>
    THEN LET sel == SelectIndex(self, strat, act, ex, r, picks, ans)
         IN  IF sel.again \/ sel.exc # NoExc
             THEN [state |-> self, exc |-> sel.exc, msg |-> sel.msg,
                   server |-> NoServer, probes |-> sel.probes, again |-> sel.again]
             ELSE IF sel.index >= Len(self.servers)
             THEN [state |-> [self EXCEPT !.last_used_server = sel.index],
                   exc |-> IndexError, msg |-> MsgNone,
                   server |-> NoServer, probes |-> sel.probes, again |-> FALSE]
             ELSE LET new == [servers |-> SubSeq(self.servers, sel.index + 1, Len(self.servers))
                                             \o SubSeq(self.servers, 1, sel.index),
                              last_used_server |-> sel.index]
                  IN  [state |-> new, exc |-> NoExc, msg |-> MsgNone,
                       server |-> new.servers[1], probes |-> sel.probes, again |-> FALSE]
    ELSE [state |-> self, exc |-> LDAPServerPoolError, msg |-> MsgNoServers,
          server |-> NoServer, probes |-> <<>>, again |-> FALSE]

\* ServerPoolState.get_server: the cursor after the call and what the call
\* gave back. The assignment to last_used_server happens only when the
\* selection raised nothing; the return then subscripts the snapshot.
get_server(self, strat, act, ex, r, picks, ans) ==
    IF self.servers # <<>>
    THEN LET sel == SelectIndex(self, strat, act, ex, r, picks, ans)
         IN  IF sel.again \/ sel.exc # NoExc
             THEN [state |-> self, exc |-> sel.exc, msg |-> sel.msg,
                   server |-> NoServer, probes |-> sel.probes, again |-> sel.again]
             ELSE LET new == [self EXCEPT !.last_used_server = sel.index]
                      cur == get_current_server(new)
                  IN  [state |-> new, exc |-> cur.exc, msg |-> MsgNone,
                       server |-> cur.server, probes |-> sel.probes, again |-> FALSE]
    ELSE [state |-> self, exc |-> LDAPServerPoolError, msg |-> MsgNoServers,
          server |-> NoServer, probes |-> <<>>, again |-> FALSE]

\* ------------------------------------------------------------------------
\* ServerPool (the registry)
\* ------------------------------------------------------------------------

\* what a caller may pass as pool_strategy: a member of POOLING_STRATEGIES or
\* something else
StrategyArguments == POOLING_STRATEGIES \cup {"OTHER"}

\* ServerPool.__init__ without the test of exhaust against active
NewServerPoolUnchecked(pool_strategy, act, ex) ==
    IF pool_strategy \notin POOLING_STRATEGIES
    THEN [exc |-> LDAPUnknownStrategyError, msg |-> MsgUnknownStrategy,
          strategy |-> pool_strategy, active |-> act, exhaust |-> ex]
    ELSE [exc |-> NoExc, msg |-> MsgNone,
          strategy |-> pool_strategy, active |-> act, exhaust |-> ex]

\* ServerPool.__init__ called without servers: the two validations, then the
\* attributes of the new registry
NewServerPool(pool_strategy, act, ex) ==
    IF pool_strategy \notin POOLING_STRATEGIES
    THEN [exc |-> LDAPUnknownStrategyError, msg |-> MsgUnknownStrategy,
          strategy |-> pool_strategy, active |-> act, exhaust |-> ex]
    ELSE IF ex /\ ~act
    THEN [exc |-> LDAPServerPoolError, msg |-> MsgInvalidPolicy,
          strategy |-> pool_strategy, active |-> act, exhaust |-> ex]
    ELSE [exc |-> NoExc, msg |-> MsgNone,
          strategy |-> pool_strategy, active |-> act, exhaust |-> ex]

\* what a caller may put in a sequence passed to add(): a Server, an address
\* string, or something that is neither
Elements ==
    [kind : {"Server", "str"}, addr : Endpoints]
        \cup {[kind |-> "other", addr |-> NoServer]}

\* sequences of at most n elements
SeqUpTo(S, n) == UNION {[1..k -> S] : k \in 0..n}

\* the arguments of add(): one Server, one address string, a sequence, or
\* something else
AddArguments ==
    {[kind |-> k, addr |-> a, elems |-> <<>>] : k \in {"Server", "str"}, a \in Endpoints}
        \cup {[kind |-> "seq", addr |-> NoServer, elems |-> q] : q \in SeqUpTo(Elements, MaxAddSeq)}
        \cup {[kind |-> "other", addr |-> NoServer, elems |-> <<>>]}

\* the for loop of add() over a sequence: every Server or address is appended,
\* the first element that is neither raises and ends the loop
RECURSIVE AppendEach(_, _)
AppendEach(list, elems) ==
    IF elems = <<>>
    THEN [servers |-> list, exc |-> NoExc, msg |-> MsgNone]
    ELSE IF Head(elems).kind \in {"Server", "str"}
    THEN AppendEach(Append(list, Server(Head(elems).addr)), Tail(elems))
    ELSE [servers |-> list, exc |-> LDAPServerPoolError, msg |-> MsgBadElement]

\* the first part of add(): the registry's list after the call's appends, and
\* the exception that ended them
AddServers(list, arg) ==
    IF arg.kind = "Server"
    THEN [servers |-> IF In(list, Server(arg.addr)) THEN list
                      ELSE Append(list, Server(arg.addr)),
          exc |-> NoExc, msg |-> MsgNone]
    ELSE IF arg.kind = "str"
    THEN [servers |-> Append(list, Server(arg.addr)), exc |-> NoExc, msg |-> MsgNone]
    ELSE IF arg.kind = "seq"
    THEN AppendEach(list, arg.elems)
    ELSE [servers |-> list, exc |-> LDAPServerPoolError, msg |-> MsgBadArgument]

\* the first part of remove()
RemoveServer(list, server) ==
    IF In(list, server)
    THEN [servers |-> ListRemove(list, server), exc |-> NoExc, msg |-> MsgNone]
    ELSE [servers |-> list, exc |-> LDAPServerPoolError, msg |-> MsgNotInPool]

\* the orders in which a loop may visit the elements of S
VisitOrders(S) == {q \in [1..Cardinality(S) -> S] : \A c \in S : \E i \in DOMAIN q : q[i] = c}

\* the orders in which `for connection in self.pool_states` may visit the
\* keys; the order shows only when a refresh raises, which it does exactly on
\* an empty list, so one order stands for all of them otherwise
Orders(ps, list) ==
    IF list = <<>>
    THEN VisitOrders(DOMAIN ps)
    ELSE {CHOOSE q \in VisitOrders(DOMAIN ps) : TRUE}

\* the outcomes randint may have for each cursor of a refresh broadcast
\* (no draw succeeds on an empty list: the value is then not used)
Draws(ps, list) ==
    [DOMAIN ps -> IF list = <<>> THEN {0} ELSE randint(0, Len(list) - 1)]

\* the loop that ends add() and remove(): refresh() on every registered
\* cursor in dictionary order; an exception raised by one refresh ends it
RECURSIVE RefreshAll(_, _, _, _)
RefreshAll(ps, order, list, rnd) ==
    IF order = <<>>
    THEN [pool_states |-> ps, exc |-> NoExc]
    ELSE LET c == Head(order)
             r == refresh(ps[c], list, rnd[c])
             next == [ps EXCEPT ![c] = r.state]
         IN  IF r.exc # NoExc
             THEN [pool_states |-> next, exc |-> r.exc]
             ELSE RefreshAll(next, Tail(order), list, rnd)

\* ------------------------------------------------------------------------
\* Observations
\* ------------------------------------------------------------------------

Outcome(op, conn, exc, msg, server, probes) ==
    [op |-> op, conn |-> conn, exc |-> exc, msg |-> msg, server |-> server,
     probes |-> probes]

NoTrace == <<>>

\* the connection whose calls are kept (the code treats all connections alike)
Observed == "c1"

\* the get_server calls of round-robin selection without active check are
\* kept, the last 2 * MaxServers of them
Traced(connection) == connection = Observed /\ strategy = ROUND_ROBIN /\ ~active

Record(tr, entry) ==
    IF Len(tr) < 2 * MaxServers THEN Append(tr, entry) ELSE Append(Tail(tr), entry)

\* the endpoints a call of add() appended
Appended(before, after) == {after[i] : i \in (Len(before) + 1)..Len(after)}

NotSeen == [servers |-> <<>>, last_used_server |-> -1]

\* a thread that is in no call. before: the registry's list before the
\* mutation the writer makes
WriterIdle(list) == [pc |-> "idle", todo |-> <<>>, k |-> 0, exc |-> NoExc, before |-> list]

ReaderIdle ==
    \* sawLive: the server whose check_availability() answered True in this call
    [pc |-> "idle", op |-> "none", starting |-> 0, index |-> 0, temp |-> <<>>,
     server |-> NoServer, sawLive |-> NoServer, retried |-> FALSE,
     exc |-> NoExc, msg |-> MsgNone, result |-> NoServer, seen |-> NotSeen]

\* ------------------------------------------------------------------------
\* Initial state: a pool constructed without servers, by a call of the
\* constructor that raised nothing
\* ------------------------------------------------------------------------
Init ==
    /\ servers = <<>>
    /\ pool_states = <<>>
    /\ \E pool_strategy \in StrategyArguments, act \in BOOLEAN, ex \in BOOLEAN :
           \E pool \in {NewServerPool(pool_strategy, act, ex)} :
               /\ pool.exc = NoExc
               /\ strategy = pool.strategy
               /\ active = pool.active
               /\ exhaust = pool.exhaust
    /\ last = Outcome("__init__", NoConnection, NoExc, MsgNone, NoServer, <<>>)
    /\ trace = NoTrace
    /\ removed = {}
    /\ writer = WriterIdle(<<>>)
    /\ reader = ReaderIdle
    /\ alive = {}

\* ------------------------------------------------------------------------
\* Operations, each call as one step
\* ------------------------------------------------------------------------

\* what the first part of add() can come to on the list, over all arguments
AddOutcomes(list) == {AddServers(list, arg) : arg \in AddArguments}

\* ServerPool.add(servers)
Add ==
    \E a \in AddOutcomes(servers) :
        /\ Len(a.servers) <= MaxServers
        /\ servers' = a.servers
        /\ removed' = removed \ Appended(servers, a.servers)
        /\ trace' = NoTrace
        /\ UNCHANGED <<strategy, active, exhaust, threads>>
        /\ IF a.exc # NoExc
           THEN /\ pool_states' = pool_states
                /\ last' = Outcome("add", NoConnection, a.exc, a.msg, NoServer, <<>>)
           ELSE \E order \in Orders(pool_states, a.servers), rnd \in Draws(pool_states, a.servers) :
                    \E b \in {RefreshAll(pool_states, order, a.servers, rnd)} :
                        /\ pool_states' = b.pool_states
                        /\ last' = Outcome("add", NoConnection, b.exc, MsgNone, NoServer, <<>>)

\* ServerPool.remove(server)
Remove(server) ==
    \E a \in {RemoveServer(servers, server)} :
        /\ servers' = a.servers
        /\ removed' = IF a.exc = NoExc /\ ~In(a.servers, server)
                      THEN removed \cup {server}
                      ELSE removed
        /\ trace' = NoTrace
        /\ UNCHANGED <<strategy, active, exhaust, threads>>
        /\ IF a.exc # NoExc
           THEN /\ pool_states' = pool_states
                /\ last' = Outcome("remove", NoConnection, a.exc, a.msg, server, <<>>)
           ELSE \E order \in Orders(pool_states, a.servers), rnd \in Draws(pool_states, a.servers) :
                    \E b \in {RefreshAll(pool_states, order, a.servers, rnd)} :
                        /\ pool_states' = b.pool_states
                        /\ last' = Outcome("remove", NoConnection, b.exc, MsgNone, server, <<>>)

\* ServerPool.initialize(connection)
Initialize(connection) ==
    /\ \E r \in (IF servers = <<>> THEN {0} ELSE randint(0, Len(servers) - 1)) :
           \E new \in {NewServerPoolState(servers, r)} :
               IF new.exc # NoExc
               THEN /\ pool_states' = pool_states
                    /\ trace' = trace
                    /\ last' = Outcome("initialize", connection, new.exc, MsgNone, NoServer, <<>>)
               ELSE /\ pool_states' = [c \in DOMAIN pool_states \cup {connection} |->
                                          IF c = connection THEN new.state ELSE pool_states[c]]
                    /\ trace' = IF connection = Observed THEN NoTrace ELSE trace
                    /\ last' = Outcome("initialize", connection, NoExc, MsgNone, NoServer, <<>>)
    /\ UNCHANGED <<servers, strategy, active, exhaust, removed, threads>>

\* the answers check_availability() may give to the probes of one pass
Answers(n) == [1..n -> BOOLEAN]

\* the outcomes of the successive randint(0, len(temp_list) - 1) of one pass
\* over a snapshot of n servers
Picks(n) == {f \in [1..n -> 0..(n - 1)] : \A k \in 1..n : f[k] \in randint(0, n - k)}

\* ServerPool.get_server(connection). A call whose scan starts over for ever
\* (no probe answers live, exhaust is off) does not complete: the step stands
\* for the last pass of a call that completes.
GetServer(connection) ==
    /\ UNCHANGED <<servers, strategy, active, exhaust, removed, threads>>
    /\ IF connection \notin DOMAIN pool_states
       THEN /\ last' = Outcome("get_server", connection, LDAPServerPoolError,
                               MsgNotRegistered, NoServer, <<>>)
            /\ UNCHANGED <<pool_states, trace>>
       ELSE LET self == pool_states[connection]
                n == Len(self.servers)
            IN  \E r \in (IF strategy = RANDOM /\ ~active THEN randint(0, n) ELSE {0}),
                   picks \in (IF strategy = RANDOM /\ active THEN Picks(n) ELSE {<<>>}),
                   ans \in (IF active THEN Answers(n) ELSE {<<>>}) :
                    \E g \in {get_server(self, strategy, active, exhaust, r, picks, ans)} :
                        /\ ~g.again
                        /\ pool_states' = [pool_states EXCEPT ![connection] = g.state]
                        /\ last' = Outcome("get_server", connection, g.exc, g.msg,
                                           g.server, g.probes)
                        /\ trace' = IF Traced(connection)
                                    THEN Record(trace, [pre |-> self.last_used_server,
                                                        index |-> g.state.last_used_server,
                                                        server |-> g.server])
                                    ELSE trace

\* ServerPool.get_current_server without the test `connection in
\* self.pool_states`: the lookup of a connection that is not a key fails in the
\* dictionary
GetCurrentServerWithoutTest(connection) ==
    /\ UNCHANGED <<servers, pool_states, strategy, active, exhaust, trace, removed, threads>>
    /\ IF connection \notin DOMAIN pool_states
       THEN last' = Outcome("get_current_server", connection, "KeyError",
                            MsgNone, NoServer, <<>>)
       ELSE LET g == get_current_server(pool_states[connection])
            IN  last' = Outcome("get_current_server", connection, g.exc, MsgNone,
                                g.server, <<>>)

\* ServerPool.get_current_server(connection)
GetCurrentServer(connection) ==
    /\ UNCHANGED <<servers, pool_states, strategy, active, exhaust, trace, removed, threads>>
    /\ IF connection \notin DOMAIN pool_states
       THEN last' = Outcome("get_current_server", connection, LDAPServerPoolError,
                            MsgNotRegistered, NoServer, <<>>)
       ELSE LET g == get_current_server(pool_states[connection])
            IN  last' = Outcome("get_current_server", connection, g.exc, MsgNone,
                                g.server, <<>>)

Next ==
    \/ Add
    \/ \E server \in Endpoints : Remove(server)
    \/ \E connection \in Connections : Initialize(connection)
    \/ \E connection \in Connections : GetServer(connection)
    \/ \E connection \in Connections : GetCurrentServer(connection)

Spec == Init /\ [][Next]_vars

\* ------------------------------------------------------------------------
\* The same code statement by statement: one thread mutates the registry
\* while the observed connection's thread selects a server. Statements that
\* touch only locals are joined to the statement that follows them.
\* ------------------------------------------------------------------------

Self == pool_states[Observed]

\* EndOfPass that raises whether or not the pool may be exhausted
EndOfPassAlwaysRaises(ex) == "raise"

\* the end of a pass that found no live server (lines 113-116, 133-139)
EndOfPass(ex) == IF ex THEN "raise" ELSE "continue"

\* non-empty endpoint lists of at most n servers
Lists(n) == SeqUpTo(Endpoints, n) \ {<<>>}

\* A pool that add() filled and on which the connections of conns called
\* initialize(); no call is in progress.
InitThreads(conns) ==
    /\ servers \in Lists(MaxServers)
    /\ \E i \in randint(0, Len(servers) - 1) :
           pool_states = [c \in conns |->
                             [servers |-> servers,
                              last_used_server |-> IF c = Observed THEN i ELSE 0]]
    /\ strategy \in POOLING_STRATEGIES
    /\ active \in BOOLEAN
    /\ exhaust \in BOOLEAN
    /\ exhaust => active
    /\ last = Outcome("initialize", Observed, NoExc, MsgNone, NoServer, <<>>)
    /\ trace = NoTrace
    /\ removed = {}
    /\ writer = WriterIdle(servers)
    /\ reader = ReaderIdle
    /\ alive \in SUBSET Endpoints

\* what no statement of the reader's thread changes
ReaderFrame == UNCHANGED <<servers, strategy, active, exhaust, last, trace, removed, writer, alive>>

Finished(exc, msg, result) ==
    [reader EXCEPT !.pc = "done", !.exc = exc, !.msg = msg, !.result = result,
                   !.seen = Self]

\* the caller enters ServerPool.get_server or ServerPool.get_current_server
\* (the connection is registered)
ReaderCall ==
    /\ reader.pc \in {"idle", "done"}
    /\ \E op \in {"get_server", "get_current_server"} :
           reader' = [ReaderIdle EXCEPT !.pc = op, !.op = op]
    /\ UNCHANGED pool_states
    /\ ReaderFrame

\* line 67: return self.servers[self.last_used_server]
CurrentStmt ==
    /\ reader.pc = "get_current_server"
    /\ reader' = Finished(get_current_server(Self).exc, MsgNone, get_current_server(Self).server)
    /\ UNCHANGED pool_states
    /\ ReaderFrame

\* line 70: if self.servers
GetServerIf ==
    /\ reader.pc = "get_server"
    /\ reader' = IF Self.servers # <<>>
                 THEN [reader EXCEPT !.pc = "select", !.seen = Self]
                 ELSE Finished(LDAPServerPoolError, MsgNoServers, NoServer)
    /\ UNCHANGED pool_states
    /\ ReaderFrame

\* lines 71-90: the strategy's branch. Without active check the index is
\* assigned here; with it, the scan is entered.
GetServerSelect ==
    /\ reader.pc = "select"
    /\ IF ~active
       THEN \E r \in randint(0, Len(Self.servers)) :
                /\ pool_states' = [pool_states EXCEPT ![Observed].last_used_server =
                                      SelectIndex(Self, strategy, FALSE, exhaust, r, <<>>, <<>>).index]
                /\ reader' = [reader EXCEPT !.pc = "return", !.seen = Self]
       ELSE /\ UNCHANGED pool_states
            /\ reader' = [reader EXCEPT
                            !.pc = IF strategy = RANDOM THEN "random" ELSE "scan",
                            !.starting = IF strategy = FIRST THEN 0 ELSE Self.last_used_server + 1,
                            !.seen = Self]
    /\ ReaderFrame

\* line 120: index = starting
ScanStart ==
    /\ reader.pc = "scan"
    /\ reader' = [reader EXCEPT !.pc = "up", !.index = reader.starting]
    /\ UNCHANGED pool_states
    /\ ReaderFrame

\* line 121: while index < len(self.servers); line 128 when the loop ends
ScanUpTest ==
    /\ reader.pc = "up"
    /\ reader' = IF reader.index < Len(Self.servers)
                 THEN [reader EXCEPT !.pc = "up_probe", !.seen = Self]
                 ELSE [reader EXCEPT !.pc = "base", !.index = 0, !.seen = Self]
    /\ UNCHANGED pool_states
    /\ ReaderFrame

\* lines 122-124 and 130-132: if self.servers[index].check_availability():
\* break, else index += 1 and back to the loop's test
Probe(loop) ==
    IF reader.index >= Len(Self.servers)
    THEN Finished(IndexError, MsgNone, NoServer)
    ELSE IF Self.servers[reader.index + 1] \in alive
    THEN [reader EXCEPT !.pc = "assign", !.sawLive = Self.servers[reader.index + 1],
                        !.seen = Self]
    ELSE [reader EXCEPT !.pc = loop, !.index = reader.index + 1, !.seen = Self]

ScanUpProbe ==
    /\ reader.pc = "up_probe"
    /\ reader' = Probe("up")
    /\ UNCHANGED pool_states
    /\ ReaderFrame

\* line 129: while index < starting; lines 133-139 when the loop ends
ScanBaseTest ==
    /\ reader.pc = "base"
    /\ reader' = IF reader.index < reader.starting
                 THEN [reader EXCEPT !.pc = "base_probe"]
                 ELSE IF EndOfPass(exhaust) = "raise"
                 THEN Finished(LDAPServerPoolExhaustedError, MsgExhausted, NoServer)
                 ELSE [reader EXCEPT !.pc = "scan", !.retried = TRUE]
    /\ UNCHANGED pool_states
    /\ ReaderFrame

ScanBaseProbe ==
    /\ reader.pc = "base_probe"
    /\ reader' = Probe("base")
    /\ UNCHANGED pool_states
    /\ ReaderFrame

\* lines 74, 81, 87: self.last_used_server = <the index the scan returned>
AssignIndex ==
    /\ reader.pc = "assign"
    /\ pool_states' = [pool_states EXCEPT ![Observed].last_used_server = reader.index]
    /\ reader' = [reader EXCEPT !.pc = "return"]
    /\ ReaderFrame

\* line 97: return self.servers[self.last_used_server]
ReturnStmt ==
    /\ reader.pc = "return"
    /\ reader' = Finished(get_current_server(Self).exc, MsgNone, get_current_server(Self).server)
    /\ UNCHANGED pool_states
    /\ ReaderFrame

\* line 105: temp_list = self.servers[:]
RandomCopy ==
    /\ reader.pc = "random"
    /\ reader' = [reader EXCEPT !.pc = "random_test", !.temp = Self.servers, !.seen = Self]
    /\ UNCHANGED pool_states
    /\ ReaderFrame

\* line 106: while temp_list; lines 113-116 when the loop ends
RandomTest ==
    /\ reader.pc = "random_test"
    /\ reader' = IF reader.temp # <<>>
                 THEN [reader EXCEPT !.pc = "pop"]
                 ELSE IF EndOfPass(exhaust) = "raise"
                 THEN Finished(LDAPServerPoolExhaustedError, MsgExhaustedRandom, NoServer)
                 ELSE [reader EXCEPT !.pc = "random", !.retried = TRUE]
    /\ UNCHANGED pool_states
    /\ ReaderFrame

\* lines 109-110: server = temp_list.pop(randint(0, len(temp_list) - 1));
\* if server.check_availability()
RandomPop ==
    /\ reader.pc = "pop"
    /\ \E r \in randint(0, Len(reader.temp) - 1) :
           reader' = IF reader.temp[r + 1] \in alive
                     THEN [reader EXCEPT !.pc = "random_index",
                                         !.sawLive = reader.temp[r + 1],
                                         !.server = reader.temp[r + 1],
                                         !.temp = DelAt(reader.temp, r)]
                     ELSE [reader EXCEPT !.pc = "random_test",
                                         !.server = reader.temp[r + 1],
                                         !.temp = DelAt(reader.temp, r)]
    /\ UNCHANGED pool_states
    /\ ReaderFrame

\* line 112: return self.servers.index(server); list.index raises ValueError
\* when the server is not in the list
RandomIndex ==
    /\ reader.pc = "random_index"
    /\ reader' = IF In(Self.servers, reader.server)
                 THEN [reader EXCEPT !.pc = "assign",
                                     !.index = Index(Self.servers, reader.server),
                                     !.seen = Self]
                 ELSE Finished(ValueError, MsgNone, NoServer)
    /\ UNCHANGED pool_states
    /\ ReaderFrame

\* one statement of the observed connection's call
ReaderStep ==
    \/ CurrentStmt
    \/ GetServerIf
    \/ GetServerSelect
    \/ ScanStart
    \/ ScanUpTest
    \/ ScanUpProbe
    \/ ScanBaseTest
    \/ ScanBaseProbe
    \/ AssignIndex
    \/ ReturnStmt
    \/ RandomCopy
    \/ RandomTest
    \/ RandomPop
    \/ RandomIndex

\* a server goes down or comes back
Availability ==
    /\ \E e \in Endpoints : alive' = IF e \in alive THEN alive \ {e} ELSE alive \cup {e}
    /\ UNCHANGED <<servers, pool_states, strategy, active, exhaust, last, trace,
                   removed, writer, reader>>

\* what no statement of the writer's thread changes
WriterFrame == UNCHANGED <<strategy, active, exhaust, last, trace, removed, reader, alive>>

\* the first part of add() or remove() with outcome a: the registry's list
\* is changed, then the refresh loop is entered unless the call has raised
Mutate(a) ==
    /\ writer.pc = "idle"
    /\ Len(a.servers) <= MaxServers
    /\ servers' = a.servers
    /\ IF a.exc # NoExc
       THEN writer' = [writer EXCEPT !.pc = "done", !.exc = a.exc]
       ELSE \E order \in Orders(pool_states, a.servers) :
                writer' = [writer EXCEPT !.pc = "refresh", !.todo = order]
    /\ UNCHANGED pool_states
    /\ WriterFrame

\* lines 212-230 of add(). (The registry is not emptied here: what an emptied
\* registry does to the cursors shows without a second thread; see Remove.)
WriterAdd == \E a \in AddOutcomes(servers) : a.servers # <<>> /\ Mutate(a)

\* lines 237-242 of remove()
WriterRemove ==
    \E server \in Endpoints :
        \E a \in {RemoveServer(servers, server)} : a.servers # <<>> /\ Mutate(a)

\* line 61 of refresh(), for the next cursor of the loop: self.servers = []
WriterClear ==
    /\ writer.pc = "refresh"
    /\ pool_states' = [pool_states EXCEPT ![Head(writer.todo)].servers = <<>>]
    /\ writer' = [writer EXCEPT !.pc = "append", !.k = 0]
    /\ UNCHANGED servers
    /\ WriterFrame

\* lines 62-63 of refresh(): self.servers.append(server), one server a time
WriterAppend ==
    /\ writer.pc = "append"
    /\ writer.k < Len(servers)
    /\ pool_states' = [pool_states EXCEPT ![Head(writer.todo)].servers =
                          Append(@, servers[writer.k + 1])]
    /\ writer' = [writer EXCEPT !.k = writer.k + 1]
    /\ UNCHANGED servers
    /\ WriterFrame

\* line 64 of refresh(): self.last_used_server = randint(0, len(self.servers) - 1),
\* then on to the next cursor
WriterDraw ==
    /\ writer.pc = "append"
    /\ writer.k = Len(servers)
    /\ LET c == Head(writer.todo)
           draws == randint(0, Len(pool_states[c].servers) - 1)
       IN  IF draws = {}
           THEN /\ writer' = [writer EXCEPT !.pc = "done", !.exc = ValueError]
                /\ UNCHANGED pool_states
           ELSE \E r \in draws :
                    /\ pool_states' = [pool_states EXCEPT ![c].last_used_server = r]
                    /\ writer' = [writer EXCEPT
                                    !.pc = IF Tail(writer.todo) = <<>> THEN "done" ELSE "refresh",
                                    !.todo = Tail(writer.todo)]
    /\ UNCHANGED servers
    /\ WriterFrame

\* A registry mutation, statement by statement, while the observed connection,
\* the only one registered, selects; every server answers live throughout.
\* RANDOM without active check is left out: its out-of-range draw (line 90)
\* shows without a second thread.
InitConc ==
    /\ InitThreads({Observed})
    /\ strategy = RANDOM => active
    /\ alive = Endpoints

NextConc ==
    \/ WriterAdd
    \/ WriterRemove
    \/ WriterClear
    \/ WriterAppend
    \/ WriterDraw
    \/ ReaderCall
    \/ ReaderStep

SpecConc == InitConc /\ [][NextConc]_vars

\* the observed connection's calls alone, with servers going down and coming
\* back; the thread that is inside a call keeps running
NextLive ==
    \/ ReaderCall
    \/ ReaderStep
    \/ Availability

InitLive == InitThreads(Connections)

SpecLive == InitLive /\ [][NextLive]_vars /\ WF_vars(ReaderStep)

\* ------------------------------------------------------------------------
\* Properties
\* ------------------------------------------------------------------------

Registered == DOMAIN pool_states

\* the step is a call of op (the call is what sets last.op)
IsCall(op) == last'.op = op /\ vars' # vars

\* C1: every registered cursor with a non-empty snapshot has
\* 0 <= last_used_server < len(snapshot), in every reachable state.
CursorIndexInRange ==
    \A c \in Registered :
        pool_states[c].servers # <<>> =>
            /\ 0 <= pool_states[c].last_used_server
            /\ pool_states[c].last_used_server < Len(pool_states[c].servers)

\* the calls number s, s + 1, ..., s + n - 1 of the trace returned the n
\* entries of the snapshot snap, each once, in increasing index order wrapping
\* to 0, starting right after the cursor's value before call s
CyclicWindow(snap, s, n) ==
    /\ Len(snap) = n
    /\ \A k \in 0..(n - 1) :
        /\ trace[s + k].server # NoServer
        /\ trace[s + k].index = (trace[s].pre + 1 + k) % n
        /\ trace[s + k].server = snap[trace[s + k].index + 1]
    /\ {trace[s + k].index : k \in 0..(n - 1)} = 0..(n - 1)

\* C2: ROUND_ROBIN without active check, registry of N >= 1 endpoints, no
\* add/remove in between: any N consecutive get_server calls of one connection
\* return all N snapshot entries once, cyclically from the cursor, and the next
\* N calls return the same sequence.
RoundRobinCycle ==
    (strategy = ROUND_ROBIN /\ ~active /\ Len(servers) >= 1 /\ Observed \in Registered) =>
        LET N == Len(servers)
            snap == pool_states[Observed].servers
        IN  \A s \in 1..(Len(trace) - N + 1) :
                /\ CyclicWindow(snap, s, N)
                /\ s + 2 * N - 1 <= Len(trace) =>
                       \A k \in 0..(N - 1) : trace[s + N + k].server = trace[s + k].server

\* C3: an endpoint removed from a registry that held it once is returned by
\* no later get_server or get_current_server, until it is added again.
RemovedNeverReturned ==
    (last.op \in {"get_server", "get_current_server"} /\ last.server # NoServer) =>
        last.server \notin removed

\* C4: an add or remove either completes, with the list updated and every
\* cursor refreshed from it, or fails and leaves the list and every cursor as
\* they were.
NoPartialSuccess ==
    [][(IsCall("add") \/ IsCall("remove")) =>
          IF last'.exc = NoExc
          THEN \A c \in Registered : pool_states'[c].servers = servers'
          ELSE servers' = servers /\ pool_states' = pool_states]_vars

\* no probe of the call answered live
NoneLive(probes) == \A k \in DOMAIN probes : ~probes[k][2]

\* C5: with active and exhaust on, a get_server on a non-empty snapshot all of
\* whose probes answer not-live raises LDAPServerPoolExhaustedError and leaves
\* the cursor as it was, so get_current_server gives what it gave before.
ExhaustedLeavesCursor ==
    [][\A c \in Registered :
          (/\ active /\ exhaust
           /\ pool_states[c].servers # <<>>
           /\ IsCall("get_server") /\ last'.conn = c
           /\ NoneLive(last'.probes))
          => /\ last'.exc = LDAPServerPoolExhaustedError
             /\ last'.server = NoServer
             /\ pool_states' = pool_states
             /\ servers' = servers]_vars

\* a get_server that found every server of a snapshot of three not live, the
\* servers tried in random order
ExhaustedWitness ==
    /\ strategy = RANDOM /\ active /\ exhaust
    /\ last.op = "get_server" /\ last.exc = LDAPServerPoolExhaustedError
    /\ Len(last.probes) = 3 /\ NoneLive(last.probes)
    /\ {last.probes[k][1] : k \in DOMAIN last.probes} = 0..2
    /\ get_current_server(pool_states[last.conn]).exc = NoExc

\* C6: with active on, the endpoint get_server returns is one whose probe
\* answered live during that call.
ActiveReturnsLive ==
    (active /\ last.op = "get_server" /\ last.server # NoServer) =>
        \E k \in DOMAIN last.probes :
            /\ last.probes[k][2]
            /\ pool_states[last.conn].servers[last.probes[k][1] + 1] = last.server

\* a get_server that returned the one server answering live after two others
\* answered not live
ActiveReturnsLiveWitness ==
    /\ active /\ last.op = "get_server" /\ last.server # NoServer
    /\ Len(last.probes) = 3
    /\ ~last.probes[1][2] /\ ~last.probes[2][2] /\ last.probes[3][2]
    /\ pool_states[last.conn].servers[last.probes[1][1] + 1] # last.server

\* C7: while add/remove and its refresh run on another thread, each statement
\* of get_server/get_current_server reads the cursor's snapshot as the whole
\* list of before the mutation or the whole list of after it, with
\* last_used_server an index of it; no subscript is out of range and the
\* endpoint returned is in one of the two lists.
ReaderSeesWholeSnapshot ==
    /\ reader.seen # NotSeen =>
          /\ reader.seen.servers \in {writer.before, servers}
          /\ reader.seen.last_used_server < Len(reader.seen.servers)
    /\ reader.exc \notin {IndexError, ValueError}
    /\ reader.result # NoServer =>
          In(writer.before, reader.result) \/ In(servers, reader.result)

\* the observed connection is inside get_server
InGetServer == reader.op = "get_server" /\ reader.pc \notin {"idle", "done"}

\* the observed connection's get_server has ended, by return or by exception
GetServerEnded == reader.op = "get_server" /\ reader.pc = "done"

\* C8: with active on and exhaust off, get_server ends only after a probe
\* answered live, and then by returning the server that answered; and if from
\* some point on a server of the snapshot answers live for ever, a get_server
\* in progress eventually returns a server that answered live.
WaitsForLiveServer ==
    /\ []((active /\ ~exhaust /\ GetServerEnded) =>
             (reader.exc = NoExc /\ reader.result # NoServer /\ reader.result = reader.sawLive))
    /\ \A e \in Endpoints :
          <>[](e \in alive /\ In(Self.servers, e)) =>
              []((active /\ ~exhaust /\ InGetServer) =>
                    <>(GetServerEnded /\ reader.exc = NoExc /\ reader.result # NoServer
                                      /\ reader.result = reader.sawLive))

\* a get_server that went through a pass without a live server, started over
\* and returned a server
WaitsForLiveServerWitness ==
    /\ active /\ ~exhaust /\ GetServerEnded
    /\ reader.retried
    /\ reader.result # NoServer /\ reader.result = reader.sawLive

\* C9: initialize on a registry without endpoints fails with the pool's
\* "no servers" error and registers no cursor.
InitializeEmptyPoolError ==
    [][(IsCall("initialize") /\ servers = <<>>) =>
          /\ last'.exc = LDAPServerPoolError
          /\ last'.msg = MsgNoServers
          /\ pool_states' = pool_states]_vars

\* C10: FIRST without active check: every get_server on a non-empty snapshot
\* returns the snapshot's entry at index 0.
FirstReturnsIndexZero ==
    (/\ strategy = FIRST /\ ~active
     /\ last.op = "get_server" /\ last.conn \in Registered
     /\ pool_states[last.conn].servers # <<>>)
    => /\ last.exc = NoExc
       /\ pool_states[last.conn].last_used_server = 0
       /\ last.server = pool_states[last.conn].servers[1]

\* a get_server under FIRST on a snapshot of three, while the other connection's
\* cursor stands elsewhere
FirstReturnsIndexZeroWitness ==
    /\ strategy = FIRST /\ ~active
    /\ last.op = "get_server" /\ last.conn \in Registered
    /\ Len(pool_states[last.conn].servers) = 3
    /\ last.server = pool_states[last.conn].servers[1]
    /\ \E c \in Registered \ {last.conn} : pool_states[c].last_used_server = 2

\* C11: get_server and get_current_server for a connection that is not
\* registered raise LDAPServerPoolError 'connection not in ServerPoolState' and
\* change neither the registry's list nor any cursor nor the set of registered
\* connections.
UnregisteredConnectionFails ==
    [][((IsCall("get_server") \/ IsCall("get_current_server"))
            /\ last'.conn \notin Registered)
          => /\ last'.exc = LDAPServerPoolError
             /\ last'.msg = MsgNotRegistered
             /\ last'.server = NoServer
             /\ servers' = servers
             /\ pool_states' = pool_states]_vars

\* a get_current_server of a connection never initialized, while the registry
\* holds servers and the other connection is registered
UnregisteredConnectionWitness ==
    /\ last.op = "get_current_server" /\ last.conn \notin Registered
    /\ last.msg = MsgNotRegistered
    /\ servers # <<>>
    /\ Registered # {}

\* C12: the constructor raises for exhaust without active and for a strategy
\* outside POOLING_STRATEGIES; in every reachable state exhaust implies active
\* and the strategy is one of the three, and no step changes strategy, active
\* or exhaust.
PolicyValidated ==
    /\ [](/\ \A pool_strategy \in StrategyArguments, act \in BOOLEAN, ex \in BOOLEAN :
               LET pool == NewServerPool(pool_strategy, act, ex)
               IN  /\ pool_strategy \notin POOLING_STRATEGIES =>
                          pool.exc = LDAPUnknownStrategyError
                   /\ (pool_strategy \in POOLING_STRATEGIES /\ ex /\ ~act) =>
                          (pool.exc = LDAPServerPoolError /\ pool.msg = MsgInvalidPolicy)
           /\ exhaust => active
           /\ strategy \in POOLING_STRATEGIES)
    /\ [][strategy' = strategy /\ active' = active /\ exhaust' = exhaust]_vars

\* a registry constructed with exhaust and active that went through a remove
\* which failed in the refresh, and then through a get_server
PolicyValidatedWitness ==
    /\ exhaust /\ active
    /\ last.op = "get_server" /\ last.exc = LDAPServerPoolError
    /\ last.conn \in Registered
    /\ NewServerPool(strategy, FALSE, TRUE).exc = LDAPServerPoolError

\* the index of the k-th entry (k = 1, 2, ...) in increasing order from s,
\* wrapping past the end of a list of n entries to 0
CircularOrder(s, n) == [k \in 1..n |-> (s + k - 1) % n]

\* one pass of find_active_server(starting = s) on list with the probes
\* answering ans: the probes follow the circular order from s, all but the last
\* answered not live, and the pass ends at the first live answer with its
\* index, or after all n probes with the exhausted error or the next pass
ScanIsCircular(list, s, ex, ans) ==
    LET n     == Len(list)
        f     == find_active_server(list, s, ex, ans)
        order == CircularOrder(s, n)
        lives == {k \in 1..n : ans[k]}
    IN  /\ Len(f.probes) <= n
        /\ \A k \in DOMAIN f.probes : f.probes[k] = <<order[k], ans[k]>>
        /\ \A k, j \in DOMAIN f.probes : k # j => f.probes[k][1] # f.probes[j][1]
        /\ IF lives # {}
           THEN LET first == CHOOSE k \in lives : \A j \in lives : k <= j
                IN  /\ Len(f.probes) = first
                    /\ f.exc = NoExc /\ ~f.again
                    /\ f.index = order[first]
           ELSE /\ Len(f.probes) = n
                /\ f.index = -1
                /\ f.again = ~ex
                /\ f.exc = (IF ex THEN LDAPServerPoolExhaustedError ELSE NoExc)

\* C13: on every registered cursor's snapshot and for every starting index
\* s in 0..len(snapshot), a pass of find_active_server probes s, s + 1, ...,
\* len - 1, 0, ..., s - 1 in that order, each index at most once and all of
\* them when none answers live, and gives the first index of that order whose
\* probe answered live; the get_server calls of FIRST and ROUND_ROBIN with
\* active check show probes in that order ending at the cursor's new index.
CircularScan ==
    /\ \A c \in Registered :
           LET snap == pool_states[c].servers
           IN  \A s \in 0..Len(snap), ans \in Answers(Len(snap)), ex \in BOOLEAN :
                   snap # <<>> => ScanIsCircular(snap, s, ex, ans)
    /\ (/\ active /\ strategy \in {FIRST, ROUND_ROBIN}
        /\ last.op = "get_server" /\ last.exc = NoExc /\ last.server # NoServer)
       => LET self == pool_states[last.conn]
              n    == Len(self.servers)
              m    == Len(last.probes)
          IN  /\ m \in 1..n
              /\ last.probes[m] = <<self.last_used_server, TRUE>>
              /\ \A k \in 1..(m - 1) :
                     /\ ~last.probes[k][2]
                     /\ last.probes[k + 1][1] = (last.probes[k][1] + 1) % n
              /\ strategy = FIRST => last.probes[1][1] = 0

\* a round-robin get_server from index 0 of a snapshot of three: the scan
\* probed 1 and 2, wrapped to 0 and found it live
CircularScanWitness ==
    /\ active /\ strategy = ROUND_ROBIN
    /\ last.op = "get_server" /\ last.exc = NoExc
    /\ Len(pool_states[last.conn].servers) = 3
    /\ Len(last.probes) = 3
    /\ last.probes[1] = <<1, FALSE>> /\ last.probes[2] = <<2, FALSE>>
    /\ last.probes[3] = <<0, TRUE>>

\* C14: whenever no call is in progress, every registered cursor's snapshot is
\* the registry's list, same elements in the same order, also after calls that
\* failed.
SnapshotEqualsRegistry ==
    \A c \in Registered : pool_states[c].servers = servers

\* C15: a get_server of one connection leaves the registry's list, the set of
\* registered connections, every snapshot and every other connection's cursor
\* as they were; a get_current_server changes nothing; a registered
\* connection's snapshot changes only in an add or a remove, or when the
\* connection's initialize replaces its cursor by a new one.
GetServerFrame ==
    [][/\ IsCall("get_server") =>
             /\ servers' = servers
             /\ UNCHANGED <<strategy, active, exhaust>>
             /\ DOMAIN pool_states' = DOMAIN pool_states
             /\ \A c \in Registered :
                    /\ pool_states'[c].servers = pool_states[c].servers
                    /\ c # last'.conn => pool_states'[c] = pool_states[c]
       /\ IsCall("get_current_server") =>
             UNCHANGED <<servers, pool_states, strategy, active, exhaust>>
       /\ \A c \in Registered \cap DOMAIN pool_states' :
             pool_states'[c].servers # pool_states[c].servers =>
                 \/ IsCall("add")
                 \/ IsCall("remove")
                 \/ IsCall("initialize") /\ last'.conn = c]_vars

\* a get_server of the observed connection that moved its cursor from 2 to 0
\* on a snapshot of three, while the other connection's cursor stands at 1
GetServerFrameWitness ==
    /\ last.op = "get_server" /\ last.conn = Observed /\ last.exc = NoExc
    /\ trace # NoTrace
    /\ trace[Len(trace)].pre = 2 /\ trace[Len(trace)].index = 0
    /\ \E c \in Registered \ {Observed} :
           /\ pool_states[c].last_used_server = 1
           /\ Len(pool_states[c].servers) = 3

\* C16: get_current_server on a registered connection whose snapshot is empty
\* raises LDAPServerPoolError 'no servers in server pool', as get_server does;
\* it returns no server and raises no IndexError.
CurrentServerOnEmptySnapshot ==
    (/\ last.op = "get_current_server" /\ last.conn \in Registered
     /\ pool_states[last.conn].servers = <<>>)
    => /\ last.exc = LDAPServerPoolError
       /\ last.msg = MsgNoServers
       /\ last.server = NoServer

\* C17: add of one endpoint, given as a Server or as an address string, that
\* equals an endpoint of the registry leaves the registry's list as it is.
AddSingleIdempotent ==
    \A arg \in AddArguments :
        (arg.kind \in {"Server", "str"} /\ In(servers, Server(arg.addr))) =>
            /\ AddServers(servers, arg).exc = NoExc
            /\ AddServers(servers, arg).servers = servers

\* the call ended by returning a server or by LDAPServerPoolExhaustedError
ReturnedOrExhausted(exc, server) ==
    \/ exc = NoExc /\ server # NoServer
    \/ exc = LDAPServerPoolExhaustedError /\ server = NoServer

\* no position of the snapshot was probed twice
ProbedAtMostOnce(probes) ==
    \A k, j \in DOMAIN probes : k # j => probes[k][1] # probes[j][1]

\* C18 as stated: with exhaust on, every get_server call of a cursor ends by
\* returning a server or by the pool-exhausted error, having probed no
\* snapshot entry twice.
ExhaustAlwaysReturnsOrExhausted ==
    (exhaust /\ last.op = "get_server" /\ last.conn \in Registered) =>
        /\ ReturnedOrExhausted(last.exc, last.server)
        /\ ProbedAtMostOnce(last.probes)

\* C18, amended: with exhaust on, every get_server call of a registered
\* connection whose snapshot is not empty ends after one pass, whatever the
\* probes answer and whatever the random picks, by returning a server or by
\* the pool-exhausted error, having probed no snapshot entry twice.
ExhaustTerminates ==
    /\ exhaust =>
          \A c \in Registered :
              LET self == pool_states[c]
                  n    == Len(self.servers)
              IN  self.servers # <<>> =>
                      \A picks \in (IF strategy = RANDOM THEN Picks(n) ELSE {<<>>}),
                         ans \in Answers(n) :
                          LET g == get_server(self, strategy, active, exhaust, 0, picks, ans)
                          IN  /\ ~g.again
                              /\ ReturnedOrExhausted(g.exc, g.server)
                              /\ Len(g.probes) <= n
                              /\ ProbedAtMostOnce(g.probes)
    /\ (/\ exhaust /\ last.op = "get_server" /\ last.conn \in Registered
        /\ pool_states[last.conn].servers # <<>>)
       => /\ ReturnedOrExhausted(last.exc, last.server)
          /\ Len(last.probes) <= Len(pool_states[last.conn].servers)
          /\ ProbedAtMostOnce(last.probes)

\* a get_server under FIRST with exhaust that probed the three servers of the
\* snapshot in order, found none live and raised the exhausted error
ExhaustTerminatesWitness ==
    /\ exhaust /\ strategy = FIRST
    /\ last.op = "get_server" /\ last.exc = LDAPServerPoolExhaustedError
    /\ last.probes = <<<<0, FALSE>>, <<1, FALSE>>, <<2, FALSE>>>>

\* C19: a get_server of the RANDOM strategy with active check that returns a
\* server has probed no snapshot position twice, all probes before the last
\* answered not live, the last answered live, and the cursor's new index is the
\* position of that last probe, also on a snapshot with equal endpoints.
RandomScanReturnsProbedPosition ==
    (/\ strategy = RANDOM /\ active
     /\ last.op = "get_server" /\ last.exc = NoExc /\ last.server # NoServer)
    => LET m == Len(last.probes)
       IN  /\ m >= 1
           /\ ProbedAtMostOnce(last.probes)
           /\ \A k \in 1..(m - 1) : ~last.probes[k][2]
           /\ last.probes[m][2]
           /\ pool_states[last.conn].last_used_server = last.probes[m][1]

\* every probe of a pass over n servers answers live
AllLive(n) == [k \in 1..n |-> TRUE]

\* number of consecutive get_server calls compared
RunLength == 2 * MaxServers

\* the indices and servers that k consecutive get_server calls give from the
\* cursor self under strategy strat, every probe answering live
RECURSIVE Run(_, _, _, _, _)
Run(self, strat, act, ex, k) ==
    IF k = 0
    THEN <<>>
    ELSE LET g == get_server(self, strat, act, ex, 0, <<>>, AllLive(Len(self.servers)))
         IN  <<[exc |-> g.exc, index |-> g.state.last_used_server, server |-> g.server]>>
                 \o Run(g.state, strat, act, ex, k - 1)

\* C20: from every registered cursor with a non-empty snapshot, under FIRST and
\* under ROUND_ROBIN, when every probe answers live the get_server calls with
\* active check give the same indices and servers as the calls without it,
\* call after call: index 0 for FIRST, (cursor + 1) mod len for ROUND_ROBIN.
ActiveEqualsPlainWhenAllLive ==
    \A c \in Registered, strat \in {FIRST, ROUND_ROBIN}, ex \in BOOLEAN :
        LET self  == pool_states[c]
            n     == Len(self.servers)
            plain == Run(self, strat, FALSE, FALSE, RunLength)
        IN  self.servers # <<>> =>
                /\ Run(self, strat, TRUE, ex, RunLength) = plain
                /\ \A k \in 1..RunLength : plain[k].exc = NoExc
                /\ strat = FIRST => plain[1].index = 0
                /\ (strat = ROUND_ROBIN /\ self.last_used_server < n) =>
                       \A k \in 1..RunLength :
                           plain[k].index = (self.last_used_server + k) % n

\* a round-robin get_server with active check on a snapshot of three whose
\* first probe, of index 0, answered live (the cursor came from index 2), and
\* from which three more calls lead back to index 0
ActiveEqualsPlainWitness ==
    /\ strategy = ROUND_ROBIN /\ active
    /\ last.op = "get_server" /\ last.exc = NoExc
    /\ last.probes = <<<<0, TRUE>>>>
    /\ Len(pool_states[last.conn].servers) = 3
    /\ pool_states[last.conn].last_used_server = 0
    /\ Run(pool_states[last.conn], ROUND_ROBIN, TRUE, exhaust, 3)[3].index = 0

====
